---- MODULE Spec2Model ----
(***************************************************************************)
(* Model of the hashR lookup analyzer                                      *)
(* (timesketch/lib/analyzers/hashr_lookup.py, class HashRLookup).          *)
(*                                                                         *)
(* One analyzer instance is modelled.  run() is split at its loop heads:   *)
(* connect_hashr, one iteration of the stream scan, the end of the scan,   *)
(* the set-up of check_against_hashr, one batch query, the end of          *)
(* check_against_hashr, one annotate_event call, and the summary.  The     *)
(* Lookup Service (postgres), the configuration and the event stream are   *)
(* the environment: their contents are drawn from small sets.              *)
(***************************************************************************)
EXTENDS Integers, Sequences, FiniteSets, TLC

----------------------------------------------------------------------------
(* Bounds of the model *)

MaxEvents == 3
MaxBatchSize == 2
MaxRuns == 2

----------------------------------------------------------------------------
(* Program constants *)

DEFAULT_BATCH_SIZE == 50000
HashLen == 64

ZeroByteHash == "e3b0c44298fc1c149afbf4c8996fb92427ae41e4649b934ca495991b7852b855"
KnownHashTag == "known-hash"
ZeroByteTag == "zerobyte-file"
TagsOnly == "TagsOnly"
ReturnFields == <<"hash_sha256", "hash", "sha256", "sha256_hash">>
RequiredTables == {"samples", "sources", "samples_sources"}

----------------------------------------------------------------------------
(* Values of the environment *)

H1 == "aaaaaaaaaaaaaaaaaaaaaaaaaaaaaaaaaaaaaaaaaaaaaaaaaaaaaaaaaaaaaaaa"
H2 == "bbbbbbbbbbbbbbbbbbbbbbbbbbbbbbbbbbbbbbbbbbbbbbbbbbbbbbbbbbbbbbbb"
ShortHash == "abc123"

\* event.source of the events the stream can yield: a mapping from some of
\* the returned fields to their values.
Payloads ==
    { ("hash_sha256" :> H1),
      ("sha256" :> H2),
      ("hash" :> ZeroByteHash),
      ("hash" :> ShortHash) @@ ("sha256" :> H1),
      ("sha256_hash" :> ""),
      << >> }

\* sources.sourceid is either a scalar or a list of identifiers.
ScalarId(id) == [isList |-> FALSE, ids |-> <<id>>]
ListId(ids) == [isList |-> TRUE, ids |-> ids]

\* Rows of samples_sources JOIN sources, in the column order of the select:
\* sample_sha256, source_sha256, sourceid, reponame.
JoinedRows ==
    { <<H1, "srcA", ScalarId("src1"), "imageA">>,
      <<H1, "srcB", ListId(<<"id1", "id2">>), "imageB">>,
      <<ZeroByteHash, "srcA", ScalarId("src1"), "imageA">> }

\* Contents of the hashR database: the samples table and the joined rows.
\* samples_sources.sample_sha256 references samples.sha256.
\* H2 is a sample no source is recorded for.
Databases ==
    { [samples |-> {r[1] : r \in rows} \cup {H2}, joined |-> rows] :
        rows \in SUBSET JoinedRows }

TableSets == {RequiredTables} \cup {RequiredTables \ {t} : t \in RequiredTables}

\* timesketch.conf: whether the five connection parameters are all set, the
\* value of HASHR_ADD_SOURCE_ATTRIBUTE ("None" when it is not a bool), and
\* HASHR_QUERY_BATCH_SIZE (0 stands for a key that is not set).
Configs ==
    [ params_set : BOOLEAN,
      HASHR_ADD_SOURCE_ATTRIBUTE : {"True", "False", "None"},
      HASHR_QUERY_BATCH_SIZE : 0..MaxBatchSize ]

----------------------------------------------------------------------------
(* Helpers *)

Min(a, b) == IF a < b THEN a ELSE b

\* Python's seq[i:j] on a 0-based list.
Slice(seq, i, j) == SubSeq(seq, i + 1, Min(j, Len(seq)))

\* All orders in which the elements of S can be enumerated.
Orders(S) ==
    { s \in [1..Cardinality(S) -> S] :
        \A i, j \in 1..Cardinality(S) : i # j => s[i] # s[j] }

RECURSIVE Join(_, _)
\* sep.join(parts)
Join(parts, sep) ==
    IF parts = << >> THEN ""
    ELSE IF Len(parts) = 1 THEN parts[1]
    ELSE parts[1] \o sep \o Join(Tail(parts), sep)

\* An insertion-ordered dict is a sequence of [k, v] entries with distinct k.
DictKeys(d) == [i \in 1..Len(d) |-> d[i].k]
DictKeySet(d) == {d[i].k : i \in 1..Len(d)}
DictIndex(d, key) == CHOOSE i \in 1..Len(d) : d[i].k = key

\* "d[key] = [item]": the list of a key already present is replaced.
SetDefaultAppend_Overwrite(d, key, item) ==
    IF key \in DictKeySet(d)
    THEN [d EXCEPT ![DictIndex(d, key)].v = <<item>>]
    ELSE Append(d, [k |-> key, v |-> <<item>>])

\* d.setdefault(key, []).append(item)
SetDefaultAppend(d, key, item) ==
    IF key \in DictKeySet(d)
    THEN [d EXCEPT ![DictIndex(d, key)].v = Append(@, item)]
    ELSE Append(d, [k |-> key, v |-> <<item>>])

----------------------------------------------------------------------------
(* connect_hashr *)

\* The all(...) test over the five connection parameters and
\* isinstance(add_source_attribute, bool).
ConfigComplete(cfg) ==
    /\ cfg.params_set
    /\ cfg.HASHR_ADD_SOURCE_ATTRIBUTE \in {"True", "False"}

\* int(config.get("HASHR_QUERY_BATCH_SIZE", DEFAULT_BATCH_SIZE))
ConfiguredBatchSize(cfg) ==
    IF cfg.HASHR_QUERY_BATCH_SIZE = 0 THEN DEFAULT_BATCH_SIZE
    ELSE cfg.HASHR_QUERY_BATCH_SIZE

\* connect_hashr without the test for the required tables.
ConnectOutcome_NoTableCheck(cfg, up, tbls) ==
    IF ~ConfigComplete(cfg) THEN "config_error"
    ELSE IF ~up THEN "connection_error"
    ELSE "ok"

\* The checks of connect_hashr in the order the code makes them; "ok" when
\* it returns True, otherwise the exception it raises.
ConnectOutcome(cfg, up, tbls) ==
    IF ~ConfigComplete(cfg) THEN "config_error"
    ELSE IF ~up THEN "connection_error"
    ELSE IF ~(RequiredTables \subseteq tbls) THEN "tables_error"
    ELSE "ok"

----------------------------------------------------------------------------
(* The extractor of run() *)

RECURSIVE FirstPresent_ValidOnly(_, _)
\* The loop over return_fields going on past a field whose value is not 64
\* characters long.
FirstPresent_ValidOnly(source, i) ==
    IF i > Len(ReturnFields) THEN 0
    ELSE IF ReturnFields[i] \in DOMAIN source
            /\ Len(source[ReturnFields[i]]) = HashLen THEN i
    ELSE FirstPresent_ValidOnly(source, i + 1)

RECURSIVE FirstPresent(_, _)
\* Index of the first of ReturnFields[i..] that is a key of source, 0 if none.
FirstPresent(source, i) ==
    IF i > Len(ReturnFields) THEN 0
    ELSE IF ReturnFields[i] \in DOMAIN source THEN i
    ELSE FirstPresent(source, i + 1)

\* hash_value after the loop over return_fields; found = FALSE stands for
\* the initial None.
Candidate(source) ==
    LET i == FirstPresent(source, 1)
    IN  IF i = 0 THEN [found |-> FALSE, value |-> ""]
        ELSE [found |-> TRUE, value |-> source[ReturnFields[i]]]

\* "not hash_value": None or the empty string.
NoHashValue(c) == ~c.found \/ c.value = ""

\* The length test written "> 64".
WrongLength_OnlyLonger(c) == Len(c.value) > HashLen

\* len(hash_value) != 64
WrongLength(c) == Len(c.value) # HashLen

\* The event is skipped with error_hash_counter += 1.
Rejected(source) ==
    LET c == Candidate(source)
    IN  NoHashValue(c) \/ WrongLength(c)

\* The test of line 320 written "< 0".
IndexIsEmpty_Strict(d) == Len(d) < 0

\* len(hash_events_dict) <= 0
IndexIsEmpty(d) == Len(d) <= 0

----------------------------------------------------------------------------
(* batch_hashes and check_against_hashr *)

RECURSIVE RangeFrom(_, _, _)
\* range(start, stop, step) for step >= 1
RangeFrom(start, stop, step) ==
    IF start >= stop THEN << >>
    ELSE <<start>> \o RangeFrom(start + step, stop, step)

\* batch_hashes with the slice one key short.
batch_hashes_ShortSlice(hash_list, batch_size) ==
    LET starts == RangeFrom(0, Len(hash_list), batch_size)
    IN  [n \in 1..Len(starts) |->
            Slice(hash_list, starts[n], starts[n] + batch_size - 1)]

\* The batches the generator yields, in order.
batch_hashes(hash_list, batch_size) ==
    LET starts == RangeFrom(0, Len(hash_list), batch_size)
    IN  [n \in 1..Len(starts) |->
            Slice(hash_list, starts[n], starts[n] + batch_size)]

\* The select over the joined tables issued whatever add_source_attribute is.
QueryRows_AlwaysJoined(db, add_source, batch) ==
    LET keys == {batch[i] : i \in 1..Len(batch)}
    IN  {r \in db.joined : r[1] \in keys}

\* The rows the select statement returns for a batch: the joined rows when
\* add_source_attribute is true, one-column rows of samples otherwise.
QueryRows(db, add_source, batch) ==
    LET keys == {batch[i] : i \in 1..Len(batch)}
    IN  IF add_source = "True"
        THEN {r \in db.joined : r[1] \in keys}
        ELSE {<<h>> : h \in db.samples \cap keys}

\* The provenance descriptor built from one row (entry[2], entry[3] are the
\* third and fourth column); a row without these columns raises IndexError,
\* which the code turns into "TagsOnly".
Source(entry) ==
    IF Len(entry) < 3 THEN TagsOnly
    ELSE IF Len(entry) < 4 THEN TagsOnly
    ELSE IF entry[3].isList
         THEN entry[4] \o ":" \o Join(entry[3].ids, ";")
         ELSE entry[4] \o ":" \o entry[3].ids[1]

\* The merge with "matching_hashes[entry[0]] = {source}": a key keeps one
\* descriptor only.
MergeRows_Overwrite(matching, rows, newKeys) ==
    LET one(key) ==
            LET found == {Source(r) : r \in {x \in rows : x[1] = key}}
            IN  IF found = {} THEN {} ELSE {CHOOSE d \in found : TRUE}
        old == [i \in 1..Len(matching) |->
                   [k |-> matching[i].k,
                    v |-> IF one(matching[i].k) = {} THEN matching[i].v
                          ELSE one(matching[i].k)]]
        new == [i \in 1..Len(newKeys) |->
                   [k |-> newKeys[i], v |-> one(newKeys[i])]]
    IN  old \o new

\* matching_hashes after "for entry in results:
\* matching_hashes.setdefault(entry[0], set()).add(source)", when the rows of
\* keys not yet in the dict first appear in the order newKeys.
MergeRows(matching, rows, newKeys) ==
    LET sources(key) == {Source(r) : r \in {x \in rows : x[1] = key}}
        old == [i \in 1..Len(matching) |->
                   [k |-> matching[i].k,
                    v |-> matching[i].v \cup sources(matching[i].k)]]
        new == [i \in 1..Len(newKeys) |->
                   [k |-> newKeys[i], v |-> sources(newKeys[i])]]
    IN  old \o new

----------------------------------------------------------------------------
(* annotate_event *)

\* tags_container
TagsContainer(hash_value) ==
    IF hash_value = ZeroByteHash THEN <<KnownHashTag, ZeroByteTag>>
    ELSE <<KnownHashTag>>

\* annotate_event without "sources = False" in the zero-byte branch.
EffectiveSources_NotSuppressed(hash_value, sources) == sources

\* sources after the zero-byte test; the empty set stands for False.
EffectiveSources(hash_value, sources) ==
    IF hash_value = ZeroByteHash THEN {} ELSE sources

AddTagsCall(tags) == [op |-> "add_tags", tags |-> tags, attrs |-> {}]
AddAttributesCall(srcs) == [op |-> "add_attributes", tags |-> << >>, attrs |-> srcs]
CommitCall == [op |-> "commit", tags |-> << >>, attrs |-> {}]

\* annotate_event committing after add_tags and again after add_attributes.
AnnotateCalls_CommitTwice(hash_value, sources) ==
    LET srcs == EffectiveSources(hash_value, sources)
    IN  <<AddTagsCall(TagsContainer(hash_value)), CommitCall>>
        \o (IF srcs # {} THEN <<AddAttributesCall(srcs), CommitCall>>
            ELSE << >>)

\* The calls annotate_event makes on the event, in order.
AnnotateCalls(hash_value, sources) ==
    LET srcs == EffectiveSources(hash_value, sources)
    IN  <<AddTagsCall(TagsContainer(hash_value))>>
        \o (IF srcs # {} THEN <<AddAttributesCall(srcs)>> ELSE << >>)
        \o <<CommitCall>>

\* run() passing the provenance set whatever add_source_attribute is.
SourcesArgument_Always(add_source, hashr_value) == hashr_value

\* The second argument run() passes to annotate_event.
SourcesArgument(add_source, hashr_value) ==
    IF add_source = "True" THEN hashr_value ELSE {}

----------------------------------------------------------------------------
(* State *)

VARIABLES
    \* the environment
    config,                     \* timesketch.conf
    db_up,                      \* whether db.connect() succeeds
    tables,                     \* the tables of the hashR database
    database,                   \* its contents
    engines,                    \* engines[r]: the engine run r connected
    conn,                       \* the connection of "with ... as conn"
    \* attributes of the analyzer instance
    zerobyte_file_counter,
    unique_known_hash_counter,
    hashr_conn,                 \* 0 for None, else the run that set it
    add_source_attribute,
    query_batch_size,
    output,
    \* the current invocation of run()
    runs,                       \* its number, from 1
    pc,
    raised,                     \* the exception that ended it, or "none"
    retval,                     \* what it returned, or NoResult
    events,                     \* event.source of the events read so far
    calls,                      \* calls[e]: the calls completed on event e
    total_event_counter,
    error_hash_counter,
    known_hash_counter,
    hash_events_dict,
    matching_hashes,
    batch_counter,
    query_log,                  \* the batches passed to conn.execute
    cursor                      \* position of the annotation loops

envVars == <<config, db_up, tables, database>>
instVars == <<zerobyte_file_counter, unique_known_hash_counter, hashr_conn,
              add_source_attribute, query_batch_size, output>>
scanVars == <<events, total_event_counter, error_hash_counter,
              hash_events_dict>>
reconcileVars == <<matching_hashes, batch_counter, query_log>>
vars == <<config, db_up, tables, database, engines, conn,
          zerobyte_file_counter, unique_known_hash_counter, hashr_conn,
          add_source_attribute, query_batch_size, output,
          runs, pc, raised, retval, events, calls, total_event_counter,
          error_hash_counter, known_hash_counter, hash_events_dict,
          matching_hashes, batch_counter, query_log, cursor>>

NoResult == [kind |-> "none"]
NoOutput == [result_status |-> "None", result_summary |-> NoResult]

\* "This timeline does not contain any fields with a sha256 hash."
NoHashesSummary == [kind |-> "no_hashes"]

\* The f-string of result_summary, as the figures it is built from.
Summary(total, unique_known, unique, tagged, zerobyte, errors) ==
    [kind |-> "figures", total |-> total, matched |-> unique_known,
     unique |-> unique, tagged |-> tagged, zerobyte |-> zerobyte,
     errors |-> errors]

\* The locals of run() and the per-run history, before run() has read them.
FreshRun ==
    /\ raised = "none"
    /\ retval = NoResult
    /\ events = << >>
    /\ calls = << >>
    /\ total_event_counter = 0
    /\ error_hash_counter = 0
    /\ known_hash_counter = 0
    /\ hash_events_dict = << >>
    /\ matching_hashes = << >>
    /\ batch_counter = 1
    /\ query_log = << >>
    /\ cursor = [i |-> 1, j |-> 1]
    /\ conn = "none"

\* The class attributes of lines 27-32 and a freshly constructed instance.
Init ==
    /\ config \in Configs
    /\ db_up \in BOOLEAN
    /\ tables \in TableSets
    /\ database \in Databases
    /\ engines = [r \in 1..MaxRuns |-> "none"]
    /\ zerobyte_file_counter = 0
    /\ unique_known_hash_counter = 0
    /\ hashr_conn = 0
    /\ add_source_attribute = "None"
    /\ query_batch_size = 0
    /\ output = NoOutput
    /\ runs = 1
    /\ pc = "INIT"
    /\ FreshRun

----------------------------------------------------------------------------
(* Actions *)

\* run(), line 272: connect_hashr, then the initialisation of the locals.
Connect ==
    /\ pc = "INIT"
    /\ add_source_attribute' = config.HASHR_ADD_SOURCE_ATTRIBUTE
    /\ query_batch_size' = ConfiguredBatchSize(config)
    /\ LET outcome == ConnectOutcome(config, db_up, tables)
       IN  /\ IF outcome \in {"ok", "tables_error"}
              THEN /\ hashr_conn' = runs
                   /\ engines' = [engines EXCEPT ![runs] = "live"]
              ELSE UNCHANGED <<hashr_conn, engines>>
           /\ IF outcome = "ok"
              THEN /\ pc' = "STREAM_SCAN"
                   /\ UNCHANGED raised
              ELSE /\ pc' = "RAISED"
                   /\ raised' = outcome
    /\ UNCHANGED <<envVars, conn, zerobyte_file_counter,
                   unique_known_hash_counter, output, runs, retval, calls,
                   known_hash_counter, scanVars, reconcileVars, cursor>>

\* One iteration of "for event in events" (lines 291-318).
ScanEvent ==
    /\ pc = "STREAM_SCAN"
    /\ Len(events) < MaxEvents
    /\ \E source \in Payloads :
         /\ events' = Append(events, source)
         /\ calls' = Append(calls, << >>)
         /\ total_event_counter' = total_event_counter + 1
         /\ IF Rejected(source)
            THEN /\ error_hash_counter' = error_hash_counter + 1
                 /\ UNCHANGED hash_events_dict
            ELSE /\ hash_events_dict' =
                        SetDefaultAppend(hash_events_dict,
                                         Candidate(source).value,
                                         Len(events) + 1)
                 /\ UNCHANGED error_hash_counter
    /\ UNCHANGED <<envVars, engines, conn, instVars, runs, pc, raised,
                   retval, known_hash_counter, reconcileVars, cursor>>

\* The stream is exhausted and the index is empty (lines 320-326).
EmptyExit ==
    /\ pc = "STREAM_SCAN"
    /\ IndexIsEmpty(hash_events_dict)
    /\ output' = [result_status |-> "SUCCESS",
                  result_summary |-> NoHashesSummary]
    /\ retval' = NoHashesSummary
    /\ pc' = "DONE"
    /\ UNCHANGED <<envVars, engines, conn, zerobyte_file_counter,
                   unique_known_hash_counter, hashr_conn,
                   add_source_attribute, query_batch_size, runs, raised,
                   calls, known_hash_counter, scanVars, reconcileVars,
                   cursor>>

\* The stream is exhausted and the index has keys: check_against_hashr is
\* entered and opens its connection (lines 334, 161-178).
StartReconcile ==
    /\ pc = "STREAM_SCAN"
    /\ ~IndexIsEmpty(hash_events_dict)
    /\ matching_hashes' = << >>
    /\ batch_counter' = 1
    /\ conn' = "open"
    /\ pc' = "RECONCILE"
    /\ UNCHANGED <<envVars, engines, instVars, runs, raised, retval, calls,
                   known_hash_counter, scanVars, query_log, cursor>>

\* list(hash_events_dict.keys())
SampleHashes == DictKeys(hash_events_dict)

Batches == batch_hashes(SampleHashes, query_batch_size)

\* The batch loop leaving after its first iteration.
BatchesExhausted_AfterFirst == batch_counter > 1

\* The generator of line 179 has no batch left.
BatchesExhausted == batch_counter > Len(Batches)

\* One iteration of the batch loop (lines 179-223): the query and the merge
\* of its rows, which arrive in any order.
QueryBatch ==
    /\ pc = "RECONCILE"
    /\ ~BatchesExhausted
    /\ LET batch == Batches[batch_counter]
           rows == QueryRows(database, add_source_attribute, batch)
           newKeys == {r[1] : r \in rows} \ DictKeySet(matching_hashes)
       IN  /\ query_log' = Append(query_log, batch)
           /\ \E order \in Orders(newKeys) :
                matching_hashes' = MergeRows(matching_hashes, rows, order)
    /\ batch_counter' = batch_counter + 1
    /\ UNCHANGED <<envVars, engines, conn, instVars, runs, pc, raised,
                   retval, calls, known_hash_counter, scanVars, cursor>>

\* A failing conn.execute caught inside the loop, which goes on with the
\* next batch.
QueryFails_Dropped ==
    /\ pc = "RECONCILE"
    /\ ~BatchesExhausted
    /\ query_log' = Append(query_log, Batches[batch_counter])
    /\ batch_counter' = batch_counter + 1
    /\ UNCHANGED <<envVars, engines, conn, instVars, runs, pc, raised,
                   retval, calls, known_hash_counter, scanVars,
                   matching_hashes, cursor>>

\* conn.execute raises: the with block closes the connection and the
\* exception leaves check_against_hashr and run().
QueryFails ==
    /\ pc = "RECONCILE"
    /\ ~BatchesExhausted
    /\ query_log' = Append(query_log, Batches[batch_counter])
    /\ conn' = "closed"
    /\ raised' = "query_error"
    /\ pc' = "RAISED"
    /\ UNCHANGED <<envVars, engines, instVars, runs, retval, calls,
                   known_hash_counter, scanVars, matching_hashes,
                   batch_counter, cursor>>

\* The batch loop is exhausted: the with block ends, the engine is disposed
\* and check_against_hashr returns (lines 225-230).
FinishReconcile ==
    /\ pc = "RECONCILE"
    /\ BatchesExhausted
    /\ conn' = "closed"
    /\ engines' = [engines EXCEPT ![hashr_conn] = "disposed"]
    /\ cursor' = [i |-> 1, j |-> 1]
    /\ pc' = "ANNOTATE"
    /\ UNCHANGED <<envVars, instVars, runs, raised, retval, calls,
                   known_hash_counter, scanVars, reconcileVars>>

\* The event list taken at the position of the matched key instead of
\* under the key itself.
CursorEvents_ByPosition == hash_events_dict[cursor.i].v

\* The events indexed under the key the outer annotation loop is at.
CursorEvents ==
    hash_events_dict[DictIndex(hash_events_dict,
                               matching_hashes[cursor.i].k)].v

\* The position after the current event.
NextCursor ==
    IF cursor.j < Len(CursorEvents)
    THEN [i |-> cursor.i, j |-> cursor.j + 1]
    ELSE [i |-> cursor.i + 1, j |-> 1]

\* One iteration of the inner annotation loop (lines 338-340 / 345-347)
\* with the annotate_event call it makes (lines 247-263).  done is the
\* number of calls on the event that complete; the next one raises.
AnnotateEvent ==
    /\ pc = "ANNOTATE"
    /\ cursor.i <= Len(matching_hashes)
    /\ LET sample_hash == matching_hashes[cursor.i].k
           event == CursorEvents[cursor.j]
           sources == SourcesArgument(add_source_attribute,
                                      matching_hashes[cursor.i].v)
           todo == AnnotateCalls(sample_hash, sources)
       IN  /\ known_hash_counter' = known_hash_counter + 1
           /\ zerobyte_file_counter' =
                  IF sample_hash = ZeroByteHash
                  THEN zerobyte_file_counter + 1
                  ELSE zerobyte_file_counter
           /\ \E done \in 0..Len(todo) :
                /\ calls' = [calls EXCEPT ![event] = @ \o SubSeq(todo, 1, done)]
                /\ IF done = Len(todo)
                   THEN /\ cursor' = NextCursor
                        /\ UNCHANGED <<pc, raised>>
                   ELSE /\ pc' = "RAISED"
                        /\ raised' = "annotate_error"
                        /\ UNCHANGED cursor
    /\ UNCHANGED <<envVars, engines, conn, unique_known_hash_counter,
                   hashr_conn, add_source_attribute, query_batch_size,
                   output, runs, retval, scanVars, reconcileVars>>

\* The annotation loops are exhausted: lines 341/348 and 350-368.
Summarize ==
    /\ pc = "ANNOTATE"
    /\ cursor.i > Len(matching_hashes)
    /\ unique_known_hash_counter' = Len(matching_hashes)
    /\ LET summary == Summary(total_event_counter, Len(matching_hashes),
                              Len(hash_events_dict), known_hash_counter,
                              zerobyte_file_counter, error_hash_counter)
       IN  /\ output' = [result_status |-> "SUCCESS",
                         result_summary |-> summary]
           /\ retval' = summary
    /\ pc' = "DONE"
    /\ UNCHANGED <<envVars, engines, conn, zerobyte_file_counter,
                   hashr_conn, add_source_attribute, query_batch_size, runs,
                   raised, calls, known_hash_counter, scanVars,
                   reconcileVars, cursor>>

\* run() is invoked again on the same instance: its locals are new, the
\* attributes of the instance are what the previous run left.
RunAgain ==
    /\ pc \in {"DONE", "RAISED"}
    /\ runs < MaxRuns
    /\ runs' = runs + 1
    /\ pc' = "INIT"
    /\ raised' = "none"
    /\ retval' = NoResult
    /\ events' = << >>
    /\ calls' = << >>
    /\ total_event_counter' = 0
    /\ error_hash_counter' = 0
    /\ known_hash_counter' = 0
    /\ hash_events_dict' = << >>
    /\ matching_hashes' = << >>
    /\ batch_counter' = 1
    /\ query_log' = << >>
    /\ cursor' = [i |-> 1, j |-> 1]
    /\ conn' = "none"
    /\ UNCHANGED <<envVars, engines, instVars>>

Next ==
    \/ Connect
    \/ ScanEvent
    \/ EmptyExit
    \/ StartReconcile
    \/ QueryBatch
    \/ QueryFails
    \/ FinishReconcile
    \/ AnnotateEvent
    \/ Summarize

\* One invocation of run() on a freshly constructed instance.
Spec == Init /\ [][Next]_vars

\* The populated database, for the runs that follow one another.
FullDatabase == [samples |-> {H1, H2, ZeroByteHash}, joined |-> JoinedRows]

InitRerun == Init /\ database = FullDatabase

NextRerun == Next \/ RunAgain

\* Up to MaxRuns invocations of run() on the same instance.
SpecRerun == InitRerun /\ [][NextRerun]_vars

----------------------------------------------------------------------------
(* Vocabulary of the properties *)

\* A dict as the mapping it holds, without the insertion order.
AsMapping(d) == [key \in DictKeySet(d) |-> d[DictIndex(d, key)].v]

\* The events indexed under the keys of the set keys.
EventsUnder(keys) ==
    UNION { {hash_events_dict[n].v[m] : m \in 1..Len(hash_events_dict[n].v)} :
            n \in {x \in 1..Len(hash_events_dict) :
                     hash_events_dict[x].k \in keys} }

\* The events whose hash key is in the MatchResult.
MatchedEvents == EventsUnder(DictKeySet(matching_hashes))

EventIds == 1..Len(events)

\* Positions of the calls of kind op completed on event e.
CallsOf(e, op) == {n \in 1..Len(calls[e]) : calls[e][n].op = op}

TagsOf(e) ==
    UNION { {calls[e][n].tags[m] : m \in 1..Len(calls[e][n].tags)} :
            n \in CallsOf(e, "add_tags") }

\* check_against_hashr has returned its MatchResult.
Reconciled ==
    \/ pc \in {"ANNOTATE", "DONE"}
    \/ pc = "RAISED" /\ raised = "annotate_error"

\* The MatchResult of one query over all the keys of the index.
SingleQueryResult ==
    LET rows == QueryRows(database, add_source_attribute, SampleHashes)
    IN  [key \in {r[1] : r \in rows} |->
            {Source(r) : r \in {x \in rows : x[1] = key}}]

----------------------------------------------------------------------------
(* Properties *)

\* C1: for every batch size >= 1 the MatchResult merged from the per-batch
\* queries equals the MatchResult of a single query over all the keys: the
\* same matched keys, each with the same set of provenance descriptors.
C1_BatchingInvariant ==
    Reconciled => AsMapping(matching_hashes) = SingleQueryResult

\* Two matched keys found by two different batches, one with two descriptors.
C1_Witness ==
    /\ pc = "ANNOTATE"
    /\ Len(query_log) >= 2
    /\ Len(matching_hashes) >= 2
    /\ \E n \in 1..Len(matching_hashes) : Cardinality(matching_hashes[n].v) = 2

\* C2: no event is committed more than once in a run; a commit is the last
\* call on its event and follows add_tags (and add_attributes, whenever that
\* is called); when the run returns its summary, every event whose key is in
\* the MatchResult has been committed exactly once.
C2_CommitExactlyOnce ==
    /\ \A e \in EventIds :
         /\ Cardinality(CallsOf(e, "commit")) <= 1
         /\ \A n \in CallsOf(e, "commit") :
              /\ n = Len(calls[e])
              /\ \E m \in CallsOf(e, "add_tags") : m < n
         /\ \A n \in CallsOf(e, "add_attributes") :
              \E m \in CallsOf(e, "add_tags") : m < n
    /\ pc = "DONE" =>
         \A e \in MatchedEvents : Cardinality(CallsOf(e, "commit")) = 1

\* A completed run in which two events share a matched hash and got the
\* provenance attribute before their commit.
C2_Witness ==
    /\ pc = "DONE"
    /\ \E e1, e2 \in MatchedEvents :
         /\ e1 # e2
         /\ \E n \in 1..Len(hash_events_dict) :
              hash_events_dict[n].v = <<e1, e2>>
         /\ Len(calls[e1]) = 3
         /\ Len(calls[e2]) = 3

\* C3: the engine connect_hashr acquired is disposed when the run ends: on
\* the normal path, on the early exit of an empty index, and when a batch
\* query or an annotation raises.
C3_ConnectionReleased ==
    ( \/ pc = "DONE"
      \/ pc = "RAISED" /\ raised \in {"query_error", "annotate_error"} )
    => engines[runs] = "disposed"

\* C4: an annotated event whose key is the digest of empty input gets both
\* known-hash and zerobyte-file and never an add_attributes call.
C4_ZeroByteRule ==
    \A e \in EventsUnder({ZeroByteHash}) :
        calls[e] # << >> =>
            /\ {KnownHashTag, ZeroByteTag} \subseteq TagsOf(e)
            /\ CallsOf(e, "add_attributes") = {}

\* A committed zero-byte event although provenance is enabled and the
\* Lookup Service reported a source for the digest.
C4_Witness ==
    /\ add_source_attribute = "True"
    /\ \E n \in 1..Len(matching_hashes) :
         /\ matching_hashes[n].k = ZeroByteHash
         /\ matching_hashes[n].v # {}
    /\ \E e \in EventsUnder({ZeroByteHash}) : CallsOf(e, "commit") # {}

\* C5: once the scan has ended with an index of zero keys, the run is over
\* with status SUCCESS and the "no hashes" summary, no query was issued and
\* no call was made on any event.
C5_EmptyIndexExit ==
    ( /\ pc \notin {"INIT", "STREAM_SCAN"}
      /\ raised \notin {"config_error", "connection_error", "tables_error"}
      /\ hash_events_dict = << >> )
    => /\ pc = "DONE"
       /\ output.result_status = "SUCCESS"
       /\ output.result_summary = NoHashesSummary
       /\ retval = NoHashesSummary
       /\ query_log = << >>
       /\ \A e \in EventIds : calls[e] = << >>

\* The early exit after a stream whose events were all rejected.
C5_Witness ==
    /\ pc = "DONE"
    /\ hash_events_dict = << >>
    /\ Len(events) >= 2
    /\ error_hash_counter = Len(events)

\* The extractor's candidate is missing or not 64 characters long.
InvalidCandidate(source) ==
    LET c == Candidate(source)
    IN  ~c.found \/ Len(c.value) # 64

InvalidEvents == {e \in EventIds : InvalidCandidate(events[e])}

IndexedEvents == EventsUnder(DictKeySet(hash_events_dict))

C6_IndexAndCounter ==
    /\ \A key \in DictKeySet(hash_events_dict) : Len(key) = 64
    /\ InvalidEvents \cap IndexedEvents = {}
    /\ error_hash_counter = Cardinality(InvalidEvents)

C6_ScanContinues ==
    ( /\ pc = "STREAM_SCAN"
      /\ Len(events') = Len(events) + 1
      /\ InvalidCandidate(events'[Len(events')]) )
    => /\ pc' = "STREAM_SCAN"
       /\ raised' = "none"
       /\ error_hash_counter' = error_hash_counter + 1
       /\ hash_events_dict' = hash_events_dict

\* C6: an event whose candidate is missing or not of length 64 is left out
\* of the HashIndex and adds exactly one to the error counter, the scan goes
\* on with the next event, and every key of the HashIndex has length 64.
C6_RejectAndContinue == []C6_IndexAndCounter /\ [][C6_ScanContinues]_vars

\* A short candidate was rejected and a later event was indexed.
C6_Witness ==
    /\ Len(events) = 3
    /\ 1 \in InvalidEvents
    /\ Candidate(events[1]).found
    /\ 3 \in IndexedEvents
    /\ error_hash_counter >= 1

\* C7: when the annotation of one event fails, every other event of a
\* matched hash is still annotated and committed.
C7_FailureIsolated ==
    (pc = "RAISED" /\ raised = "annotate_error")
    => \A e \in MatchedEvents \ {CursorEvents[cursor.j]} :
           CallsOf(e, "commit") # {}

TaggedEvents == {e \in EventIds : CallsOf(e, "add_tags") # {}}

RECURSIVE SumOfLists(_, _)
\* Sum, over the keys of matching from position n on, of the number of
\* events indexed under the key.
SumOfLists(matching, n) ==
    IF n > Len(matching) THEN 0
    ELSE Len(hash_events_dict[DictIndex(hash_events_dict, matching[n].k)].v)
         + SumOfLists(matching, n + 1)

\* C8: the figures of the summary of a run that reached the annotation
\* stage are the number of events read, of keys of the HashIndex, of keys of
\* the MatchResult, of events under matched keys, of tagged events with the
\* empty-input digest and of events the extractor rejected.
C8_SummaryFigures ==
    (pc = "DONE" /\ retval.kind = "figures") =>
        /\ retval.total = Len(events)
        /\ retval.unique = Cardinality(DictKeySet(hash_events_dict))
        /\ retval.matched = Cardinality(DictKeySet(matching_hashes))
        /\ retval.tagged = SumOfLists(matching_hashes, 1)
        /\ retval.zerobyte =
               Cardinality(TaggedEvents \cap EventsUnder({ZeroByteHash}))
        /\ retval.errors = Cardinality(EventIds \ IndexedEvents)

\* C9: with provenance tracking disabled add_attributes is called on no
\* event, and when the run returns its summary every event of a matched
\* hash carries known-hash.
C9_TagsOnly ==
    config.HASHR_ADD_SOURCE_ATTRIBUTE = "False" =>
        /\ \A e \in EventIds : CallsOf(e, "add_attributes") = {}
        /\ pc = "DONE" => \A e \in MatchedEvents : KnownHashTag \in TagsOf(e)

\* A completed run without provenance in which two events of a matched hash
\* were tagged and the MatchResult holds a descriptor for it.
C9_Witness ==
    /\ config.HASHR_ADD_SOURCE_ATTRIBUTE = "False"
    /\ pc = "DONE"
    /\ Cardinality(MatchedEvents \cap TaggedEvents) >= 2
    /\ \E n \in 1..Len(matching_hashes) : matching_hashes[n].v # {}

\* The configuration, the connection or the schema is not usable.
SetupBroken ==
    \/ ~config.params_set
    \/ config.HASHR_ADD_SOURCE_ATTRIBUTE \notin {"True", "False"}
    \/ ~db_up
    \/ \E t \in {"samples", "sources", "samples_sources"} : t \notin tables

\* C10: with a setup error the run ends in connect_hashr with an exception:
\* no event is read, tagged or committed and no summary is produced.
C10_SetupErrorAborts ==
    SetupBroken =>
        /\ pc \in {"INIT", "RAISED"}
        /\ pc = "RAISED" =>
             raised \in {"config_error", "connection_error", "tables_error"}
        /\ events = << >>
        /\ calls = << >>
        /\ total_event_counter = 0
        /\ retval = NoResult
        /\ output = NoOutput

\* connect_hashr raised because a required table is missing.
C10_Witness ==
    /\ pc = "RAISED"
    /\ raised = "tables_error"
    /\ config.params_set
    /\ db_up

\* The keys passed to conn.execute so far.
QueriedKeys ==
    UNION { {query_log[n][m] : m \in 1..Len(query_log[n])} :
            n \in 1..Len(query_log) }

\* The order of the phases; an exception ends the run from any of them.
PhaseRank(p) ==
    CASE p = "INIT" -> 1
      [] p = "STREAM_SCAN" -> 2
      [] p = "RECONCILE" -> 3
      [] p = "ANNOTATE" -> 4
      [] p = "DONE" -> 5
      [] p = "RAISED" -> 5

\* Some call was completed on an event in this step.
EventTouched == \E e \in EventIds : calls'[e] # calls[e]

C11_PhaseStep ==
    /\ PhaseRank(pc) <= PhaseRank(pc')
    /\ pc \in {"DONE", "RAISED"} => pc' = pc
    /\ pc # pc' =>
         \/ PhaseRank(pc') = PhaseRank(pc) + 1
         \/ pc' = "RAISED"
         \/ /\ pc = "STREAM_SCAN"
            /\ pc' = "DONE"
            /\ hash_events_dict = << >>
            /\ retval' = NoHashesSummary
    /\ query_log' # query_log => (pc = "RECONCILE" /\ events' = events)
    /\ events' # events => (pc = "STREAM_SCAN" /\ query_log = << >>)
    /\ EventTouched =>
         /\ pc = "ANNOTATE"
         /\ query_log' = query_log
         /\ matching_hashes' = matching_hashes

C11_PhaseState ==
    /\ query_log # << >> => pc \notin {"INIT", "STREAM_SCAN"}
    /\ (pc = "ANNOTATE" \/ \E e \in EventIds : calls[e] # << >>) =>
         /\ DictKeySet(hash_events_dict) \subseteq QueriedKeys
         /\ AsMapping(matching_hashes) = SingleQueryResult

\* C11: the phases of a run follow one another in the order INIT,
\* STREAM_SCAN, then the empty exit or RECONCILE and ANNOTATE, then the
\* summary, and none is entered again; no query is issued while the stream
\* is read, and no call is made on an event before every key has been
\* queried and the rows merged.
C11_PhaseOrder == []C11_PhaseState /\ [][C11_PhaseStep]_vars

\* A completed run with two batches and a tagged event.
C11_Witness ==
    /\ pc = "DONE"
    /\ retval.kind = "figures"
    /\ Len(query_log) >= 2
    /\ \E e \in EventIds : calls[e] # << >>

\* C12: whenever run() starts, also on an instance that has run before,
\* every counter is zero, and the zero-byte figure of a summary is the number
\* of zero-byte events tagged in that run.
C12_NoStateAcrossRuns ==
    /\ pc = "INIT" =>
         /\ zerobyte_file_counter = 0
         /\ unique_known_hash_counter = 0
         /\ known_hash_counter = 0
         /\ error_hash_counter = 0
         /\ total_event_counter = 0
    /\ (pc = "DONE" /\ retval.kind = "figures") =>
         retval.zerobyte =
             Cardinality(TaggedEvents \cap EventsUnder({ZeroByteHash}))

\* C13 as stated: with provenance tracking disabled every key of the
\* MatchResult maps to the empty set.
C13_EmptyProvenance ==
    add_source_attribute = "False" =>
        \A n \in 1..Len(matching_hashes) : matching_hashes[n].v = {}

\* C13, amended: with provenance tracking disabled every key of the
\* MatchResult maps to the set that holds the TagsOnly sentinel and nothing
\* else.
C13_TagsOnlySentinel ==
    add_source_attribute = "False" =>
        \A n \in 1..Len(matching_hashes) : matching_hashes[n].v = {TagsOnly}

\* check_against_hashr has returned two matched keys without provenance.
C13_Witness ==
    /\ add_source_attribute = "False"
    /\ pc = "ANNOTATE"
    /\ Len(matching_hashes) >= 2

RECURSIVE Concat(_)
Concat(seqs) == IF seqs = << >> THEN << >> ELSE Head(seqs) \o Concat(Tail(seqs))

\* ceil(n / b) for b >= 1
CeilDiv(n, b) == (n + b - 1) \div b

\* C14: for n distinct keys and batch size b the reconciler issues
\* ceil(n/b) queries; batch k is the slice of the key list from (k-1)*b to
\* k*b, so the batches are contiguous and disjoint, their concatenation is
\* the list, all have b keys but the last, which has 1..b, and every key is
\* sent once.
C14_BatchPartition ==
    query_log # << >> =>
        LET n == Len(SampleHashes)
            b == query_batch_size
        IN  /\ \A i, j \in 1..n : i # j => SampleHashes[i] # SampleHashes[j]
            /\ Len(query_log) <= CeilDiv(n, b)
            /\ \A k \in 1..Len(query_log) :
                 /\ query_log[k] =
                        SubSeq(SampleHashes, (k - 1) * b + 1, Min(k * b, n))
                 /\ Len(query_log[k]) \in 1..b
                 /\ k < CeilDiv(n, b) => Len(query_log[k]) = b
            /\ Reconciled =>
                 /\ Len(query_log) = CeilDiv(n, b)
                 /\ Concat(query_log) = SampleHashes

\* Three keys sent in a batch of two and a batch of one.
C14_Witness ==
    /\ Reconciled
    /\ Len(SampleHashes) = 3
    /\ query_batch_size = 2
    /\ Len(query_log) = 2
    /\ Len(query_log[1]) = 2
    /\ Len(query_log[2]) = 1

\* The keys the database holds rows for among those of a logged batch.
KnownKeysOf(batch) ==
    {r[1] : r \in QueryRows(database, add_source_attribute, batch)}

\* C15: when a batch query fails the run ends with the exception: nothing is
\* returned, no SUCCESS is recorded and no call was made on any event; a run
\* that goes on to annotate has merged the rows of every batch it queried.
C15_QueryFailureAborts ==
    /\ raised = "query_error" =>
         /\ pc = "RAISED"
         /\ retval = NoResult
         /\ output.result_status # "SUCCESS"
         /\ known_hash_counter = 0
         /\ \A e \in EventIds : calls[e] = << >>
    /\ pc \in {"ANNOTATE", "DONE"} =>
         \A k \in 1..Len(query_log) :
             KnownKeysOf(query_log[k]) \subseteq DictKeySet(matching_hashes)

\* The second batch failed after the first had been merged.
C15_Witness ==
    /\ raised = "query_error"
    /\ Len(query_log) = 2
    /\ matching_hashes # << >>

C16_ConnectionState ==
    /\ pc = "RECONCILE" => (conn = "open" /\ engines[runs] = "live")
    /\ engines[runs] = "disposed" =>
         /\ conn = "closed"
         /\ DictKeySet(hash_events_dict) \subseteq QueriedKeys
         /\ Len(query_log) = CeilDiv(Len(SampleHashes), query_batch_size)

C16_ConnectionStep ==
    /\ query_log' # query_log =>
         /\ conn = "open"
         /\ engines[runs] = "live"
         /\ engines' = engines
         /\ raised' = "none" => conn' = "open"
    /\ conn' # conn =>
         \/ conn = "none" /\ conn' = "open" /\ query_log = << >>
         \/ conn = "open" /\ conn' = "closed"
    /\ engines[runs] = "disposed" =>
         (engines' = engines /\ conn' = conn /\ query_log' = query_log)

\* C16: every batch query of a run is issued on the one connection opened
\* before the first batch, which stays open between the batches; nothing is
\* queried after the connection is closed or the engine disposed, and the
\* engine is disposed at most once, after the last batch has been queried.
C16_OneConnection == []C16_ConnectionState /\ [][C16_ConnectionStep]_vars

\* The engine disposed after two batches.
C16_Witness ==
    /\ pc = "ANNOTATE"
    /\ Len(query_log) >= 2
    /\ conn = "closed"
    /\ engines[runs] = "disposed"

\* The recognised fields in their priority order.
FieldPriority == <<"hash_sha256", "hash", "sha256", "sha256_hash">>

\* Positions in FieldPriority of the fields the payload holds.
PresentFields(source) ==
    {i \in 1..Len(FieldPriority) : FieldPriority[i] \in DOMAIN source}

\* The value of the present field of highest priority.
FirstFieldValue(source) ==
    LET first == CHOOSE i \in PresentFields(source) :
                     \A j \in PresentFields(source) : i <= j
    IN  source[FieldPriority[first]]

\* C17: the candidate of an event is the value of the first present field
\* in the order hash_sha256, hash, sha256, sha256_hash: the event is indexed
\* under that value when it is 64 characters long and otherwise rejected,
\* whatever a field of lower priority holds.
C17_FirstFieldWins ==
    \A e \in EventIds :
        IF PresentFields(events[e]) = {}
        THEN e \notin IndexedEvents
        ELSE LET v == FirstFieldValue(events[e])
             IN  IF Len(v) = 64
                 THEN e \in EventsUnder({v})
                 ELSE e \notin IndexedEvents

\* An event rejected for its short first field although a field of lower
\* priority holds a valid hash, and a later event indexed.
C17_Witness ==
    /\ Len(events) >= 2
    /\ PresentFields(events[1]) = {2, 3}
    /\ Len(events[1]["hash"]) # 64
    /\ Len(events[1]["sha256"]) = 64
    /\ 1 \notin IndexedEvents
    /\ 2 \in IndexedEvents

\* The descriptors of all the rows the database holds for a key.
DescriptorsOf(key) ==
    {Source(r) : r \in {x \in database.joined : x[1] = key}}

\* The sets passed to the add_attributes calls completed on event e.
AttributesOf(e) ==
    {calls[e][n].attrs : n \in CallsOf(e, "add_attributes")}

\* C18: with provenance tracking enabled, an add_attributes call carries
\* exactly the descriptors of all rows of the event's hash, and when the run
\* returns its summary every event of a matched hash other than the
\* empty-input digest has received that set once.
C18_ProvenanceAttribute ==
    add_source_attribute = "True" =>
        \A n \in 1..Len(hash_events_dict) :
            LET key == hash_events_dict[n].k
            IN  \A e \in EventsUnder({key}) :
                    /\ AttributesOf(e) \subseteq {DescriptorsOf(key)}
                    /\ ( /\ pc = "DONE"
                         /\ key \in DictKeySet(matching_hashes)
                         /\ key # ZeroByteHash )
                       => /\ Cardinality(CallsOf(e, "add_attributes")) = 1
                          /\ AttributesOf(e) = {DescriptorsOf(key)}
                          /\ DescriptorsOf(key) # {}

\* Two events of one hash that both carry its two descriptors, one of them
\* built from a list of identifiers.
C18_Witness ==
    /\ pc = "DONE"
    /\ \E e1, e2 \in EventIds :
         /\ e1 # e2
         /\ AttributesOf(e1) = {{"imageA:src1", "imageB:id1;id2"}}
         /\ AttributesOf(e2) = {{"imageA:src1", "imageB:id1;id2"}}

\* C19: no call (add_tags, add_attributes, commit) is ever completed on an
\* event the extractor rejected or whose key is not in the MatchResult, and
\* the MatchResult holds only keys the database returned rows for.
C19_UnmatchedUntouched ==
    /\ \A e \in EventIds : e \notin MatchedEvents => calls[e] = << >>
    /\ \A key \in DictKeySet(matching_hashes) : KnownKeysOf(<<key>>) = {key}

\* A completed run with a tagged event, an indexed event whose key did not
\* match and a rejected event.
C19_Witness ==
    /\ pc = "DONE"
    /\ TaggedEvents # {}
    /\ IndexedEvents \ MatchedEvents # {}
    /\ EventIds \ IndexedEvents # {}

\* The places of the HashIndex lists that hold event e.
PlacesOf(e) ==
    {p \in (1..Len(hash_events_dict)) \X (1..MaxEvents) :
        /\ p[2] <= Len(hash_events_dict[p[1]].v)
        /\ hash_events_dict[p[1]].v[p[2]] = e}

RECURSIVE SumOfLengths(_, _)
\* Sum of the lengths of the lists of d from position n on.
SumOfLengths(d, n) ==
    IF n > Len(d) THEN 0 ELSE Len(d[n].v) + SumOfLengths(d, n + 1)

\* C20: the total event counter is the error counter plus the sum of the
\* lengths of the HashIndex lists; every event read is in exactly one place
\* of one list or, counted once as an error, in none; every list holds its
\* events in stream order.
C20_ScanAccounting ==
    /\ total_event_counter = Len(events)
    /\ total_event_counter =
           error_hash_counter + SumOfLengths(hash_events_dict, 1)
    /\ \A e \in EventIds : Cardinality(PlacesOf(e)) <= 1
    /\ error_hash_counter =
           Cardinality({e \in EventIds : PlacesOf(e) = {}})
    /\ \A n \in 1..Len(hash_events_dict) :
         LET list == hash_events_dict[n].v
         IN  /\ list # << >>
             /\ \A i \in 1..Len(list) : list[i] \in EventIds
             /\ \A i, j \in 1..Len(list) : i < j => list[i] < list[j]

\* During the scan: three events read, one an error, two in one list.
C20_Witness ==
    /\ pc = "STREAM_SCAN"
    /\ total_event_counter = 3
    /\ error_hash_counter = 1
    /\ \E n \in 1..Len(hash_events_dict) : Len(hash_events_dict[n].v) = 2

====
